---- MODULE Spec2Model ----
(***************************************************************************)
(* One invocation of the serverless function src/api/analyze.js.           *)
(*                                                                         *)
(* The file holds two successive declarations of `handler`; the later one  *)
(* (lines 171-471, with its helper isValidBase64Image, lines 474-499)      *)
(* supersedes the earlier one and is the handler modelled here.            *)
(*                                                                         *)
(* Text is a sequence of lexical units.  A unit is one punctuation         *)
(* character, one whitespace character, a run of three backticks (a fence), or   *)
(* a maximal run of letters/digits (a word).  The regular expressions of   *)
(* the source only look at backtick runs, the word "json", whitespace and  *)
(* braces, and JSON.parse only at punctuation, whitespace and whole        *)
(* words, so both are computed on units exactly as on characters.          *)
(* The image string is kept character by character, since its length       *)
(* matters.                                                                *)
(***************************************************************************)
EXTENDS Integers, Sequences, FiniteSets, TLC

(***************************************************************************)
(* Text helpers                                                            *)
(***************************************************************************)

\* \s of the regular expressions, and the whitespace String.prototype.trim removes
WS == {" ", "\n"}

\* the unit standing for a run of three backticks
FENCE == "<fence>"

Drop(s, n) == SubSeq(s, n + 1, Len(s))

Take(s, n) == SubSeq(s, 1, n)

\* number of units of set at the head of s before the first one outside it
RunLen(s, set) ==
    LET out == {i \in 1..Len(s) : s[i] \notin set}
    IN  IF out = {} THEN Len(s) ELSE (CHOOSE i \in out : \A m \in out : i <= m) - 1

\* number of leading whitespace units of s
LeadWs(s) == RunLen(s, WS)

\* number of trailing whitespace units of s
TrailWs(s) ==
    LET out == {i \in 1..Len(s) : s[i] \notin WS}
    IN  IF out = {} THEN Len(s) ELSE Len(s) - (CHOOSE i \in out : \A m \in out : i >= m)

\* String.prototype.trim
Trim(s) ==
    LET a == LeadWs(s)
    IN  IF a = Len(s) THEN << >> ELSE SubSeq(s, a + 1, Len(s) - TrailWs(s))

\* line 410, first replace: the first fence tagged json and the whitespace after it
StripTaggedFence(s) ==
    LET hits == {i \in 1..(Len(s) - 1) : s[i] = FENCE /\ s[i + 1] = "json"}
    IN  IF hits = {} THEN s
        ELSE LET i    == CHOOSE k \in hits : \A m \in hits : k <= m
                 rest == Drop(s, i + 1)
             IN  Take(s, i - 1) \o Drop(rest, LeadWs(rest))

\* line 410, second replace: a fence at the very end and the whitespace before it
StripTrailingFence(s) ==
    IF s # << >> /\ s[Len(s)] = FENCE
    THEN LET before == Take(s, Len(s) - 1)
         IN  Take(before, Len(before) - TrailWs(before))
    ELSE s

\* the match made lazy: from the first opening brace to the first closing brace
MatchObjectLazy(s) ==
    LET opens == {i \in 1..Len(s) : s[i] = "{"}
    IN  IF opens = {} THEN [found |-> FALSE, text |-> << >>]
        ELSE LET a      == CHOOSE k \in opens : \A m \in opens : k <= m
                 closes == {i \in (a + 1)..Len(s) : s[i] = "}"}
             IN  IF closes = {} THEN [found |-> FALSE, text |-> << >>]
                 ELSE LET b == CHOOSE k \in closes : \A m \in closes : k <= m
                      IN  [found |-> TRUE, text |-> SubSeq(s, a, b)]

\* line 413, match: from the first opening brace to the last closing brace after it
MatchObject(s) ==
    LET opens == {i \in 1..Len(s) : s[i] = "{"}
    IN  IF opens = {} THEN [found |-> FALSE, text |-> << >>]
        ELSE LET a      == CHOOSE k \in opens : \A m \in opens : k <= m
                 closes == {i \in (a + 1)..Len(s) : s[i] = "}"}
             IN  IF closes = {} THEN [found |-> FALSE, text |-> << >>]
                 ELSE LET b == CHOOSE k \in closes : \A m \in closes : k >= m
                      IN  [found |-> TRUE, text |-> SubSeq(s, a, b)]

\* lines 407-416: the text handed to JSON.parse
ExtractJson(content) ==
    LET jsonString == StripTrailingFence(StripTaggedFence(Trim(content)))
        jsonMatch  == MatchObject(jsonString)
    IN  IF jsonMatch.found THEN jsonMatch.text ELSE jsonString

(***************************************************************************)
(* JSON.parse on units.  A value is [t, v]: t the kind, v its content      *)
(* (always a sequence, so values of different kinds stay comparable).      *)
(***************************************************************************)

NumberWords == {"0", "1", "42"}

LiteralWords == {"true", "false", "null"}

JNull == [t |-> "null", v |-> << >>]

JNum(w) == [t |-> "num", v |-> <<w>>]

JStr(units) == [t |-> "str", v |-> units]

JArr(elems) == [t |-> "arr", v |-> elems]

\* members: a sequence of [k |-> key units, val |-> value], in insertion order
JObj(members) == [t |-> "obj", v |-> members]

ParseFail == [ok |-> FALSE, val |-> JNull, pos |-> 0]

ParseOk(val, pos) == [ok |-> TRUE, val |-> val, pos |-> pos]

\* index of the first non-whitespace unit at or after i (Len(s) + 1 if none)
SkipWs(s, i) == i + RunLen(Drop(s, i - 1), WS)

\* obj[key] = val: an existing key keeps its place, a new one is appended
SetProp(members, key, val) ==
    IF \E n \in 1..Len(members) : members[n].k = key
    THEN [n \in 1..Len(members) |->
             IF members[n].k = key THEN [k |-> key, val |-> val] ELSE members[n]]
    ELSE Append(members, [k |-> key, val |-> val])

\* a string literal opening at s[i] = "\"": up to the next quote; a raw line
\* break inside it is a syntax error
ParseString(s, i) ==
    LET closes == {k \in (i + 1)..Len(s) : s[k] = "\""}
    IN  IF closes = {} THEN ParseFail
        ELSE LET k == CHOOSE c \in closes : \A m \in closes : c <= m
             IN  IF \E m \in (i + 1)..(k - 1) : s[m] = "\n" THEN ParseFail
                 ELSE ParseOk(JStr(SubSeq(s, i + 1, k - 1)), k + 1)

RECURSIVE ParseValue(_, _)
RECURSIVE ParseElems(_, _, _)
RECURSIVE ParseMembers(_, _, _)

\* the value starting at s[i] (whitespace before it already skipped)
ParseValue(s, i) ==
    IF i > Len(s) THEN ParseFail
    ELSE IF s[i] = "{" THEN
        LET j == SkipWs(s, i + 1)
        IN  IF j <= Len(s) /\ s[j] = "}" THEN ParseOk(JObj(<< >>), j + 1)
            ELSE ParseMembers(s, j, << >>)
    ELSE IF s[i] = "[" THEN
        LET j == SkipWs(s, i + 1)
        IN  IF j <= Len(s) /\ s[j] = "]" THEN ParseOk(JArr(<< >>), j + 1)
            ELSE ParseElems(s, j, << >>)
    ELSE IF s[i] = "\"" THEN ParseString(s, i)
    ELSE IF s[i] \in NumberWords THEN ParseOk(JNum(s[i]), i + 1)
    ELSE IF s[i] \in LiteralWords THEN
        ParseOk(IF s[i] = "null" THEN JNull ELSE [t |-> "bool", v |-> <<s[i]>>], i + 1)
    ELSE ParseFail

\* the elements of an array from s[i] on, acc those already read
ParseElems(s, i, acc) ==
    LET e == ParseValue(s, i)
    IN  IF ~e.ok THEN ParseFail
        ELSE LET j == SkipWs(s, e.pos)
             IN  IF j > Len(s) THEN ParseFail
                 ELSE IF s[j] = "," THEN ParseElems(s, SkipWs(s, j + 1), Append(acc, e.val))
                 ELSE IF s[j] = "]" THEN ParseOk(JArr(Append(acc, e.val)), j + 1)
                 ELSE ParseFail

\* the members of an object from s[i] on, acc those already read
ParseMembers(s, i, acc) ==
    IF i > Len(s) \/ s[i] # "\"" THEN ParseFail
    ELSE LET key == ParseString(s, i)
         IN  IF ~key.ok THEN ParseFail
             ELSE LET c == SkipWs(s, key.pos)
                  IN  IF c > Len(s) \/ s[c] # ":" THEN ParseFail
                      ELSE LET e == ParseValue(s, SkipWs(s, c + 1))
                           IN  IF ~e.ok THEN ParseFail
                               ELSE LET j    == SkipWs(s, e.pos)
                                        next == SetProp(acc, key.val.v, e.val)
                                    IN  IF j > Len(s) THEN ParseFail
                                        ELSE IF s[j] = "," THEN
                                            ParseMembers(s, SkipWs(s, j + 1), next)
                                        ELSE IF s[j] = "}" THEN ParseOk(JObj(next), j + 1)
                                        ELSE ParseFail

\* JSON.parse(text): one value with optional whitespace around it, or a SyntaxError
JSONParse(text) ==
    LET r == ParseValue(text, SkipWs(text, 1))
    IN  IF r.ok /\ SkipWs(text, r.pos) > Len(text)
        THEN [ok |-> TRUE, val |-> r.val]
        ELSE [ok |-> FALSE, val |-> JNull]

(***************************************************************************)
(* JavaScript values beyond JSON, truthiness and property access           *)
(***************************************************************************)

Undefined == [t |-> "undefined", v |-> << >>]

\* !!val
Truthy(val) ==
    CASE val.t \in {"undefined", "null"} -> FALSE
      [] val.t = "str"  -> val.v # << >>
      [] val.t = "num"  -> val.v # <<"0">>
      [] val.t = "bool" -> val.v = <<"true">>
      [] OTHER          -> TRUE

\* val[key] of a value that is not null or undefined
GetProp(val, key) ==
    IF val.t = "obj" /\ \E n \in 1..Len(val.v) : val.v[n].k = <<key>>
    THEN val.v[CHOOSE n \in 1..Len(val.v) : val.v[n].k = <<key>>].val
    ELSE Undefined

\* val?.[key]
OptProp(val, key) ==
    IF val.t \in {"undefined", "null"} THEN Undefined ELSE GetProp(val, key)

\* val?.[0]
OptFirst(val) ==
    IF val.t = "arr" /\ val.v # << >> THEN val.v[1] ELSE Undefined

Member(key, val) == [k |-> <<key>>, val |-> val]

(***************************************************************************)
(* isValidBase64Image, lines 474-499.  Image strings are sequences of      *)
(* characters.                                                             *)
(***************************************************************************)

LowerCase ==
    {"a", "b", "c", "d", "e", "f", "g", "h", "i", "j", "k", "l", "m",
     "n", "o", "p", "q", "r", "s", "t", "u", "v", "w", "x", "y", "z"}

UpperCase ==
    {"A", "B", "C", "D", "E", "F", "G", "H", "I", "J", "K", "L", "M",
     "N", "O", "P", "Q", "R", "S", "T", "U", "V", "W", "X", "Y", "Z"}

Digits == {"0", "1", "2", "3", "4", "5", "6", "7", "8", "9"}

\* [A-Za-z0-9+/]
Base64Alphabet == LowerCase \cup UpperCase \cup Digits \cup {"+", "/"}

\* "data:image/"
DataImage == <<"d", "a", "t", "a", ":", "i", "m", "a", "g", "e", "/">>

\* ";base64,"
Base64Mark == <<";", "b", "a", "s", "e", "6", "4", ",">>

StartsWith(s, p) == Len(s) >= Len(p) /\ Take(s, Len(p)) = p

\* line 481: s.replace(/^data:image\/[a-z]+;base64,/, '')
StripDataUrlPrefix(s) ==
    IF ~StartsWith(s, DataImage) THEN s
    ELSE LET afterHead == Drop(s, Len(DataImage))
             n         == RunLen(afterHead, LowerCase)
             afterSub  == Drop(afterHead, n)
         IN  IF n >= 1 /\ StartsWith(afterSub, Base64Mark)
             THEN Drop(afterSub, Len(Base64Mark))
             ELSE s

\* line 484: /^[A-Za-z0-9+/]*={0,2}$/.test(s)
Base64Regex(s) ==
    LET n    == RunLen(s, Base64Alphabet)
        rest == Drop(s, n)
    IN  Len(rest) <= 2 /\ \A i \in 1..Len(rest) : rest[i] = "="

\* line 490
MinImageLength == 100

isValidBase64Image(base64String) ==
    IF ~Truthy(base64String) \/ base64String.t # "str" THEN FALSE
    ELSE LET base64Data == StripDataUrlPrefix(base64String.v)
         IN  IF ~Base64Regex(base64Data) THEN FALSE
             ELSE IF Len(base64Data) < MinImageLength THEN FALSE
             ELSE TRUE

(***************************************************************************)
(* Payloads the handler builds itself                                      *)
(***************************************************************************)

\* new Date().toLocaleDateString(), one value for the whole request
Today == JStr(<<"<today>">>)

RECEIPT == JStr(<<"receipt">>)

\* image === 'test', line 252
SENTINEL == JStr(<<"t", "e", "s", "t">>)

\* lines 254-271
MockData(type) ==
    IF type = RECEIPT
    THEN JObj(<< Member("store", JStr(<<"Test", " ", "Store">>)),
                 Member("date", Today),
                 Member("items", JArr(<< JObj(<<
                     Member("name", JStr(<<"Test", " ", "Item">>)),
                     Member("quantity", JNum("1")),
                     Member("unit", JStr(<<"piece">>)),
                     Member("price", JNum("1")),
                     Member("category", JStr(<<"Test">>)) >>) >>)),
                 Member("total", JNum("1")) >>)
    ELSE JObj(<< Member("meal_name", JStr(<<"Test", " ", "Meal">>)),
                 Member("ingredients", JArr(<< JStr(<<"test", " ", "ingredient">>) >>)),
                 Member("estimated_portions",
                        JObj(<< [k |-> <<"test", " ", "ingredient">>, val |-> JNum("0.5")] >>)) >>)

\* the placeholders with the test on the type inverted
FallbackDataSwapped(type) ==
    IF type # RECEIPT
    THEN JObj(<< Member("items", JArr(<< JObj(<<
                     Member("price", JNum("0")),
                     Member("category", JStr(<<"Unknown">>)) >>) >>)) >>)
    ELSE JObj(<< Member("ingredients", JArr(<< JStr(<<"food", " ", "item">>) >>)),
                 Member("estimated_portions",
                        JObj(<< [k |-> <<"food", " ", "item">>, val |-> JNum("0.5")] >>)) >>)

\* lines 426-447
FallbackData(type) ==
    IF type = RECEIPT
    THEN JObj(<< Member("store", JStr(<<"Receipt", " ", "Detected">>)),
                 Member("date", Today),
                 Member("items", JArr(<< JObj(<<
                     Member("name", JStr(<<"Item", " ", "from", " ", "receipt">>)),
                     Member("quantity", JNum("1")),
                     Member("unit", JStr(<<"item">>)),
                     Member("price", JNum("0")),
                     Member("category", JStr(<<"Unknown">>)) >>) >>)),
                 Member("total", JNum("0")) >>)
    ELSE JObj(<< Member("meal_name", JStr(<<"Meal", " ", "from", " ", "photo">>)),
                 Member("ingredients", JArr(<< JStr(<<"food", " ", "item">>) >>)),
                 Member("estimated_portions",
                        JObj(<< [k |-> <<"food", " ", "item">>, val |-> JNum("0.5")] >>)) >>)

\* lines 404-450: the value returned for the upstream text content
NormalizeResponse(content, type) ==
    LET parsed == JSONParse(ExtractJson(content))
    IN  IF parsed.ok THEN parsed.val ELSE FallbackData(type)

\* line 354: the image URL sent upstream
JpegPrefix == DataImage \o <<"j", "p", "e", "g">> \o Base64Mark

ImageUrl(image) == JpegPrefix \o image.v

(***************************************************************************)
(* Responses                                                               *)
(***************************************************************************)

NoError == [text |-> "", status |-> 0, message |-> Undefined]

Error(text) == [text |-> text, status |-> 0, message |-> Undefined]

\* res.status(code).json({success, error, data, details})
Json(code, success, error, data, details) ==
    [code |-> code, kind |-> "json", success |-> success, error |-> error,
     data |-> data, details |-> details]

Failure(code, error) == Json(code, "false", error, Undefined, Undefined)

\* res.status(200).json({success: true, data})
Success(data) == Json(200, "true", NoError, data, Undefined)

\* res.status(200).end()
EndOk == [code |-> 200, kind |-> "end", success |-> "absent", error |-> NoError,
          data |-> Undefined, details |-> Undefined]

\* lines 460-470
ServerError(cause) ==
    Failure(500, [text |-> "Server error", status |-> 0, message |-> JStr(<<cause>>)])

(***************************************************************************)
(* Inputs: the request, the environment and the upstream's answers         *)
(***************************************************************************)

\* image lengths tried: MinImageLength - LenSlack .. MinImageLength + LenSlack
LenSlack == 1

\* "=" characters tried at the end of an image: 0 .. MaxPadding
MaxPadding == 3

\* whitespace units tried between a fence and the text it encloses: 0 .. MaxBlank
MaxBlank == 1

Rep(c, n) == [i \in 1..n |-> c]

Q == "\""

Quoted(units) == <<Q>> \o units \o <<Q>>

\* req.method
Methods == {"OPTIONS", "GET", "POST"}

\* "data:image/png;base64," and a prefix the guard's [a-z]+ does not accept
PngPrefix == DataImage \o <<"p", "n", "g">> \o Base64Mark

UpperPrefix == DataImage \o <<"P", "N", "G">> \o Base64Mark

NotBase64 == <<"n", "o", "t", "-", "b", "a", "s", "e", "6", "4", "!", "!">>

\* images around the minimal length, with and without padding, with and
\* without a data-URL prefix
ImageStrings ==
    {SENTINEL.v, NotBase64}
    \cup {Rep("A", n) \o Rep("=", k) :
            n \in (MinImageLength - LenSlack)..(MinImageLength + LenSlack),
            k \in 0..MaxPadding}
    \cup {pre \o Rep("A", n) :
            pre \in {PngPrefix, UpperPrefix},
            n \in {MinImageLength - 1, MinImageLength}}

\* body.image: absent, empty, not a string, or a string
ImageValues == {Undefined, JStr(<< >>), JNum("42")} \cup {JStr(i) : i \in ImageStrings}

\* body.type: absent, empty, or a string
TypeValues == {Undefined, JStr(<< >>), RECEIPT, JStr(<<"meal">>), JStr(<<"other">>)}

\* a body the platform parsed: an object holding the fields that are present
BodyOf(image, type) ==
    JObj((IF image = Undefined THEN << >> ELSE <<Member("image", image)>>)
         \o (IF type = Undefined THEN << >> ELSE <<Member("type", type)>>))

\* text of a body the platform did not parse (req.body is undefined)
RawBodies ==
    { << >>,
      <<"null">>,
      <<"{", "}">>,
      <<"{">> \o Quoted(<<"type">>) \o <<":">> \o Quoted(<<"meal">>) \o <<"}">>,
      <<"{">> \o Quoted(<<"image">>) \o <<":">> \o Quoted(SENTINEL.v) \o <<",">>
            \o Quoted(<<"type">>) \o <<":">> \o Quoted(<<"receipt">>) \o <<"}">>,
      <<"{">> \o Quoted(<<"image">>) \o <<":">> \o Quoted(SENTINEL.v) }

\* req: body is req.body (Undefined when the platform parsed nothing), raw the stream's text
Requests ==
    {[body |-> BodyOf(i, t), raw |-> << >>] : i \in ImageValues, t \in TypeValues}
    \cup {[body |-> Undefined, raw |-> r] : r \in RawBodies}

\* --- the text the upstream model answers with ---

ReceiptJson ==
    <<"{", "\n", " ">> \o Quoted(<<"store">>) \o <<":", " ">> \o Quoted(<<"Corner", " ", "Shop">>)
    \o <<",", "\n", " ">> \o Quoted(<<"items">>) \o <<":", " ", "[", "{">>
    \o Quoted(<<"name">>) \o <<":">> \o Quoted(<<"milk">>) \o <<",">>
    \o Quoted(<<"price">>) \o <<":", "1", "}", "]", ",", "\n", " ">>
    \o Quoted(<<"total">>) \o <<":", " ", "1", "\n", "}">>

MealJson ==
    <<"{">> \o Quoted(<<"meal_name">>) \o <<":">> \o Quoted(<<"soup">>) \o <<",">>
    \o Quoted(<<"ingredients">>) \o <<":", "[">> \o Quoted(<<"rice">>) \o <<"]", ",">>
    \o Quoted(<<"estimated_portions">>) \o <<":", "{">> \o Quoted(<<"rice">>)
    \o <<":", "42", "}", "}">>

\* a receipt whose item name holds a fence tagged json
ReceiptFenceJson ==
    <<"{">> \o Quoted(<<"items">>) \o <<":", "[", "{">> \o Quoted(<<"name">>) \o <<":">>
    \o Quoted(<<FENCE, "json", " ", "bar">>) \o <<"}", "]", "}">>

\* a meal whose ingredient names hold braces and an untagged fence
MealBraceJson ==
    <<"{">> \o Quoted(<<"ingredients">>) \o <<":", "[">> \o Quoted(<<"a", "{", "b", "}">>)
    \o <<",">> \o Quoted(<<FENCE, " ", "c">>) \o <<"]", "}">>

\* both shapes at once
BothJson ==
    <<"{">> \o Quoted(<<"items">>) \o <<":", "[", "1", "]", ",">>
    \o Quoted(<<"ingredients">>) \o <<":", "[">> \o Quoted(<<"rice">>) \o <<"]", "}">>

\* objects of neither shape
NoFieldJson == <<"{">> \o Quoted(<<"store">>) \o <<":">> \o Quoted(<<"x">>) \o <<"}">>

WrongKindJson ==
    <<"{">> \o Quoted(<<"items">>) \o <<":", "[", "]", ",">>
    \o Quoted(<<"ingredients">>) \o <<":">> \o Quoted(<<"rice">>) \o <<"}">>

\* text that is no JSON value
Prose == <<"I", " ", "cannot", " ", "read", " ", "this", " ", "image">>

Truncated == <<"{">> \o Quoted(<<"items">>) \o <<":", "[", "{">> \o Quoted(<<"name">>)

\* what may stand where the model was asked to put the object
Cores ==
    {ReceiptJson, MealJson, ReceiptFenceJson, MealBraceJson, BothJson,
     NoFieldJson, WrongKindJson, <<"null">>, <<"42">>, Prose, Truncated, << >>}

ProseBefore == <<"Here", " ", "is", " ", "the", " ", "JSON", ":", " ">>

BracesBefore == <<"Result", " ", "{", "draft", "}", ":", " ">>

ProseAfter == <<"\n", "Hope", " ", "this", " ", "helps">>

BracesAfter == <<" ", "(", "see", " ", "{", "notes", "}", ")">>

Befores ==
    {<< >>, <<" ">>, ProseBefore, BracesBefore}
    \cup {<<FENCE, "json">> \o Rep("\n", k) : k \in 0..MaxBlank}
    \cup {<<FENCE>> \o Rep("\n", k) : k \in 0..MaxBlank}
    \cup {ProseBefore \o <<FENCE, "json", "\n">>}

Afters ==
    {<< >>, <<"\n">>, ProseAfter, BracesAfter}
    \cup {Rep("\n", k) \o <<FENCE>> : k \in 0..MaxBlank}
    \cup {<<"\n", FENCE>> \o ProseAfter}

\* message.content as text: a core with text before and after it
Contents == {[before |-> b, core |-> c, after |-> a] : b \in Befores, c \in Cores, a \in Afters}

TextOf(c) == c.before \o c.core \o c.after

(***************************************************************************)
(* The pure steps of the handler, tabulated once over the inputs above     *)
(***************************************************************************)

\* line 216: JSON.parse(rawBody)
parsedRawBody == [raw \in RawBodies |-> JSONParse(raw)]

\* line 293: isValidBase64Image(image)
validImage == [image \in ImageValues |-> isValidBase64Image(image)]

\* lines 404-450: parsedData
parsedData ==
    [text \in {TextOf(c) : c \in Contents}, type \in TypeValues
        |-> NormalizeResponse(text, type)]

\* the chat-completion envelope {choices: [{message: {content}}]}
Envelope(content) ==
    JObj(<< Member("choices", JArr(<< JObj(<< Member("message",
            JObj(<< Member("content", content) >>)) >>) >>)) >>)

NoParts == [before |-> << >>, core |-> << >>, after |-> << >>]

\* an upstream response: its status, whether its body reads as JSON, the value
\* read, and (for reference) the pieces of the text content it carries
Upstream(status, readable, data, parts) ==
    [status |-> status, readable |-> readable, data |-> data, parts |-> parts]

NoUpstream == Upstream(0, FALSE, Undefined, NoParts)

OkUpstreams ==
    {Upstream(200, FALSE, Undefined, NoParts)}
    \cup {Upstream(200, TRUE, d, NoParts) : d \in {JNull, JObj(<< >>), Envelope(JNum("42"))}}
    \cup {Upstream(200, TRUE, Envelope(JStr(TextOf(c))), c) : c \in Contents}

RateLimitBody ==
    JObj(<< Member("error", JObj(<< Member("message", JStr(<<"Rate", " ", "limit">>)) >>)) >>)

\* an error body that repeats its own HTTP status
CodedBody(status) ==
    JObj(<< Member("error", JObj(<< Member("message", JStr(<<"Upstream", " ", "failure">>)),
                                    Member("code", JNum(status)) >>)) >>)

ErrorStatuses == {<<429, "429">>, <<500, "500">>}

ErrorUpstreams ==
    {Upstream(st[1], FALSE, Undefined, NoParts) : st \in ErrorStatuses}
    \cup {Upstream(st[1], TRUE, d, NoParts) : st \in ErrorStatuses, d \in {RateLimitBody, JObj(<< >>)}}
    \cup {Upstream(st[1], TRUE, CodedBody(st[2]), NoParts) : st \in ErrorStatuses}

\* openaiResponse.ok
Ok(u) == u.status >= 200 /\ u.status <= 299

(***************************************************************************)
(* The handler, lines 171-471                                              *)
(***************************************************************************)

VARIABLES
    pc,          \* where the handler is suspended: start, readBody, awaitFetch,
                 \* awaitJson, awaitErrorJson, awaitErrorText, done
    req,         \* the request: method, body (req.body), raw (the stream's text)
    apiKey,      \* whether process.env.OPENAI_API_KEY is set
    body,        \* the handler's local body
    fetchCalls,  \* calls of fetch made so far
    fetchUrl,    \* image_url.url of the call made
    upstream,    \* the upstream response, once fetch has resolved
    res          \* the responses sent so far, in order

vars == <<pc, req, apiKey, body, fetchCalls, fetchUrl, upstream, res>>

Init ==
    /\ pc = "start"
    /\ req \in {[method |-> m, body |-> r.body, raw |-> r.raw] : m \in Methods, r \in Requests}
    /\ apiKey \in BOOLEAN
    /\ body = Undefined
    /\ fetchCalls = 0
    /\ fetchUrl = << >>
    /\ upstream = NoUpstream
    /\ res = << >>

\* the fields destructured at line 229
ImageOf(b) == GetProp(IF Truthy(b) THEN b ELSE JObj(<< >>), "image")

TypeOf(b) == GetProp(IF Truthy(b) THEN b ELSE JObj(<< >>), "type")

\* return res.status(..).json(..) / .end()
Respond(r) ==
    /\ res' = Append(res, r)
    /\ pc' = "done"

\* a step of the validation chain either answers the request or lets it pass
Answer(r) == [hit |-> TRUE, r |-> r]

Pass == [hit |-> FALSE, r |-> EndOk]

\* lines 232-246
MissingField(image, type) ==
    IF ~Truthy(image) THEN Answer(Failure(400, Error("Missing required field: image")))
    ELSE IF ~Truthy(type) THEN Answer(Failure(400, Error("Missing required field: type")))
    ELSE Pass

\* lines 252-277
SentinelReply(image, type) ==
    IF image = SENTINEL THEN Answer(Success(MockData(type))) ELSE Pass

\* lines 280-288
CredentialCheck(key) ==
    IF ~key THEN Answer(Failure(500, Error("OpenAI API key not configured on server")))
    ELSE Pass

\* lines 293-299
GuardCheck(image) ==
    IF ~validImage[image]
    THEN Answer(Failure(400, Error("Invalid image format. Please provide a valid base64 image.")))
    ELSE Pass

\* the first step of the chain that answers, if any
FirstHit(steps) ==
    IF \E n \in 1..Len(steps) : steps[n].hit
    THEN steps[CHOOSE n \in 1..Len(steps) :
                   steps[n].hit /\ \A m \in 1..(n - 1) : ~steps[m].hit]
    ELSE Pass

\* the chain without the image guard
DecideUnguarded(b, key) ==
    LET image == ImageOf(b)
        type  == TypeOf(b)
    IN  FirstHit(<< MissingField(image, type), SentinelReply(image, type),
                    CredentialCheck(key) >>)

\* the chain with the credential checked before the sentinel
DecideCredentialFirst(b, key) ==
    LET image == ImageOf(b)
        type  == TypeOf(b)
    IN  FirstHit(<< MissingField(image, type), CredentialCheck(key),
                    SentinelReply(image, type), GuardCheck(image) >>)

\* lines 229-299 in the order of the source
Decide(b, key) ==
    LET image == ImageOf(b)
        type  == TypeOf(b)
    IN  FirstHit(<< MissingField(image, type), SentinelReply(image, type),
                    CredentialCheck(key), GuardCheck(image) >>)

\* lines 227-364, run with the body b: the validation chain, then the call of
\* the upstream gateway
Proceed(b) ==
    LET decision == Decide(b, apiKey)
    IN  /\ body' = b
        /\ IF decision.hit THEN
               /\ Respond(decision.r)
               /\ UNCHANGED <<fetchCalls, fetchUrl>>
           ELSE
               /\ fetchCalls' = fetchCalls + 1
               /\ fetchUrl' = ImageUrl(ImageOf(b))
               /\ pc' = "awaitFetch"
               /\ UNCHANGED res

\* lines 172-225 up to the first suspension: CORS, the method, req.body
Receive ==
    /\ pc = "start"
    /\ IF req.method = "OPTIONS" THEN
           /\ Respond(EndOk)
           /\ UNCHANGED <<body, fetchCalls, fetchUrl>>
       ELSE IF req.method # "POST" THEN
           /\ Respond(Failure(405, Error("Method not allowed. Use POST.")))
           /\ UNCHANGED <<body, fetchCalls, fetchUrl>>
       ELSE IF Truthy(req.body) THEN
           Proceed(req.body)
       ELSE
           /\ pc' = "readBody"
           /\ UNCHANGED <<body, fetchCalls, fetchUrl, res>>
    /\ UNCHANGED <<req, apiKey, upstream>>

\* lines 208-225: the stream has delivered the whole text, which is parsed
BodyRead ==
    /\ pc = "readBody"
    /\ LET parsed == parsedRawBody[req.raw]
       IN  IF ~parsed.ok THEN
               /\ Respond(Failure(400, Error("Invalid JSON in request body")))
               /\ UNCHANGED <<body, fetchCalls, fetchUrl>>
           ELSE Proceed(parsed.val)
    /\ UNCHANGED <<req, apiKey, upstream>>

\* line 335 resolves; lines 368-371 / 386 start reading the body
FetchResolves ==
    /\ pc = "awaitFetch"
    /\ \E u \in OkUpstreams \cup ErrorUpstreams :
           /\ upstream' = u
           /\ pc' = IF Ok(u) THEN "awaitJson" ELSE "awaitErrorJson"
    /\ UNCHANGED <<req, apiKey, body, fetchCalls, fetchUrl, res>>

\* line 335 rejects (network failure), caught at line 460
FetchRejects ==
    /\ pc = "awaitFetch"
    /\ Respond(ServerError("fetch failed"))
    /\ UNCHANGED <<req, apiKey, body, fetchCalls, fetchUrl, upstream>>

\* lines 371-384: the error body read as JSON
ErrorJsonResolves ==
    /\ pc = "awaitErrorJson"
    /\ upstream.readable
    /\ LET errorData == upstream.data
           message   == OptProp(OptProp(errorData, "error"), "message")
       IN  Respond(Json(500, "false",
                        [text    |-> "OpenAI API error",
                         status  |-> upstream.status,
                         message |-> IF Truthy(message) THEN message
                                     ELSE JStr(<<"Unknown", " ", "error">>)],
                        Undefined, errorData))
    /\ UNCHANGED <<req, apiKey, body, fetchCalls, fetchUrl, upstream>>

\* lines 371-374: json() rejects; the catch block asks for the body as text
ErrorJsonRejects ==
    /\ pc = "awaitErrorJson"
    /\ ~upstream.readable
    /\ pc' = "awaitErrorText"
    /\ UNCHANGED <<req, apiKey, body, fetchCalls, fetchUrl, upstream, res>>

\* line 374: text() on a body json() already consumed rejects with a TypeError,
\* which leaves the inner catch and is caught at line 460
ErrorTextRejects ==
    /\ pc = "awaitErrorText"
    /\ Respond(ServerError("Body is unusable"))
    /\ UNCHANGED <<req, apiKey, body, fetchCalls, fetchUrl, upstream>>

\* line 390
ContentOf(u) ==
    OptProp(OptProp(OptFirst(OptProp(u.data, "choices")), "message"), "content")

\* lines 386-458: the body of a 2xx response read as JSON
JsonResolves ==
    /\ pc = "awaitJson"
    /\ upstream.readable
    /\ LET openaiData == upstream.data
           content    == ContentOf(upstream)
       IN  IF ~Truthy(content) THEN
               Respond(Failure(500, Error("No content received from AI")))
           ELSE IF content.t # "str" THEN
               Respond(ServerError("content.slice is not a function"))
           ELSE
               Respond(Success(parsedData[content.v, TypeOf(body)]))
    /\ UNCHANGED <<req, apiKey, body, fetchCalls, fetchUrl, upstream>>

\* the rejection of line 386 left uncaught: the handler ends without a response
JsonRejectsUncaught ==
    /\ pc = "awaitJson"
    /\ ~upstream.readable
    /\ pc' = "done"
    /\ UNCHANGED <<req, apiKey, body, fetchCalls, fetchUrl, upstream, res>>

\* line 386 rejects: the 2xx body is not JSON, caught at line 460
JsonRejects ==
    /\ pc = "awaitJson"
    /\ ~upstream.readable
    /\ Respond(ServerError("Unexpected token"))
    /\ UNCHANGED <<req, apiKey, body, fetchCalls, fetchUrl, upstream>>

Next ==
    \/ Receive
    \/ BodyRead
    \/ FetchResolves
    \/ FetchRejects
    \/ ErrorJsonResolves
    \/ ErrorJsonRejects
    \/ ErrorTextRejects
    \/ JsonResolves
    \/ JsonRejects

Spec == Init /\ [][Next]_vars

\* every pending promise settles and the handler is resumed
FairSpec == Spec /\ WF_vars(Next)

(***************************************************************************)
(* Properties                                                              *)
(***************************************************************************)

Done == pc = "done" /\ res # << >>

\* the last response sent
Reply == res[Len(res)]

\* the body the request carries: the parsed one, or the value of its raw text
RequestBody ==
    IF Truthy(req.body) THEN req.body
    ELSE IF JSONParse(req.raw).ok THEN JSONParse(req.raw).val
    ELSE Undefined

Posted == req.method = "POST"

\* the request carries some body the handler can read
Readable == Truthy(req.body) \/ JSONParse(req.raw).ok

\* the normalizer was reached: a 2xx answer whose message content is non-empty text
Normalized ==
    /\ Done
    /\ Ok(upstream)
    /\ upstream.readable
    /\ ContentOf(upstream).t = "str"
    /\ ContentOf(upstream).v # << >>

IsArray(val) == val.t = "arr"

\* one placeholder item with price 0 and category Unknown
ReceiptPlaceholder(data) ==
    LET items == GetProp(data, "items")
    IN  /\ IsArray(items)
        /\ Len(items.v) = 1
        /\ GetProp(items.v[1], "price") = JNum("0")
        /\ GetProp(items.v[1], "category") = JStr(<<"Unknown">>)

\* the single placeholder ingredient at portion 0.5
MealPlaceholder(data) ==
    LET ingredients == GetProp(data, "ingredients")
        portions    == GetProp(data, "estimated_portions")
    IN  /\ IsArray(ingredients)
        /\ Len(ingredients.v) = 1
        /\ portions.t = "obj"
        /\ Len(portions.v) = 1
        /\ portions.v[1].k = ingredients.v[1].v
        /\ portions.v[1].val = JNum("0.5")

Placeholder(data, type) ==
    IF type = RECEIPT THEN ReceiptPlaceholder(data) ELSE MealPlaceholder(data)

\* C1: whenever the normalizer is reached with text whose extracted substring
\* does not parse, the response is 200 with success=true and the placeholder
\* of the requested type.
C1_FallbackGuarantee ==
    (Normalized /\ ~JSONParse(ExtractJson(ContentOf(upstream).v)).ok)
        => /\ Len(res) = 1
           /\ Reply.code = 200
           /\ Reply.success = "true"
           /\ Placeholder(Reply.data, TypeOf(body))

\* plain prose inside a fence for a receipt, answered with the placeholder
C1_Witness ==
    /\ Normalized
    /\ upstream.parts.core = Prose
    /\ upstream.parts.before = <<FENCE, "json", "\n">>
    /\ TypeOf(body) = RECEIPT
    /\ Reply.code = 200
    /\ ReceiptPlaceholder(Reply.data)

\* the shape a successful result must have for the type
ShapeOk(data, type) ==
    /\ type = RECEIPT =>
           IsArray(GetProp(data, "items")) /\ GetProp(data, "items").v # << >>
    /\ type = JStr(<<"meal">>) => IsArray(GetProp(data, "ingredients"))

\* C2: every 200 response with success=true carries data of the shape of its
\* type: a non-empty items sequence for a receipt, an ingredients sequence for
\* a meal; model output of another shape is replaced by the placeholder.
C2_ShapeInvariant ==
    (Done /\ Reply.code = 200 /\ Reply.success = "true")
        => ShapeOk(Reply.data, TypeOf(body))

\* C7: a POST with image "test" and a non-empty type is answered 200 with
\* success=true and the canned payload of its type, without any upstream call,
\* whether or not the credential is configured.
C7_SentinelRequest ==
    (Done /\ Posted /\ Readable
          /\ ImageOf(RequestBody) = SENTINEL /\ Truthy(TypeOf(RequestBody)))
        => /\ Reply.code = 200
           /\ Reply.success = "true"
           /\ fetchCalls = 0
           /\ LET type == TypeOf(RequestBody)
              IN  IF type = RECEIPT
                  THEN /\ GetProp(Reply.data, "store") = JStr(<<"Test", " ", "Store">>)
                       /\ IsArray(GetProp(Reply.data, "items"))
                       /\ Len(GetProp(Reply.data, "items").v) = 1
                  ELSE /\ GetProp(Reply.data, "meal_name") = JStr(<<"Test", " ", "Meal">>)
                       /\ GetProp(Reply.data, "ingredients")
                              = JArr(<<JStr(<<"test", " ", "ingredient">>)>>)

\* the sentinel answered although no credential is configured
C7_Witness ==
    /\ Done
    /\ Posted
    /\ ImageOf(RequestBody) = SENTINEL
    /\ TypeOf(RequestBody) = RECEIPT
    /\ ~apiKey
    /\ Reply.code = 200
    /\ fetchCalls = 0

\* text that is a JSON object of the shape of the type
ShapedObject(text, type) ==
    /\ text # << >>
    /\ text[1] = "{"
    /\ text[Len(text)] = "}"
    /\ JSONParse(text).ok
    /\ IF type = RECEIPT
       THEN IsArray(GetProp(JSONParse(text).val, "items"))
       ELSE IsArray(GetProp(JSONParse(text).val, "ingredients"))

Occurs(unit, text) == \E i \in 1..Len(text) : text[i] = unit

\* the text holds a fence tagged json
TaggedFenceIn(text) ==
    \E i \in 1..(Len(text) - 1) : text[i] = FENCE /\ text[i + 1] = "json"

\* the normalizer was reached with a shaped object J and text around it
Wrapped ==
    /\ Normalized
    /\ ShapedObject(upstream.parts.core, TypeOf(body))
    /\ upstream.parts.before \o upstream.parts.after # << >>

\* C3 as stated: J inside a fence or inside prose, whatever the text around it
\* holds, normalizes to the same object as bare J.
C3_AnyWrapping ==
    Wrapped => Reply.data = NormalizeResponse(upstream.parts.core, TypeOf(body))

\* C3 amended: when the text before J holds no opening brace and the text after
\* J no closing brace, J wrapped normalizes to J itself if the text before it
\* holds a fence tagged json, and otherwise to the same object as bare J.
C3_BraceFreeWrapping ==
    (Wrapped /\ ~Occurs("{", upstream.parts.before) /\ ~Occurs("}", upstream.parts.after))
        => /\ Reply.code = 200
           /\ Reply.data =
                  IF TaggedFenceIn(upstream.parts.before)
                  THEN JSONParse(upstream.parts.core).val
                  ELSE NormalizeResponse(upstream.parts.core, TypeOf(body))

\* a nested receipt between a tagged fence and a closing fence comes back whole
C3_Witness ==
    /\ Wrapped
    /\ upstream.parts.core = ReceiptJson
    /\ upstream.parts.before = <<FENCE, "json", "\n">>
    /\ upstream.parts.after = <<"\n", FENCE>>
    /\ Reply.data = JSONParse(ReceiptJson).val
    /\ Len(GetProp(Reply.data, "items").v) = 1

\* C4: content that is already a bare JSON object of the shape of the type is
\* returned as that same object, whatever its string values hold.
C4_Idempotence ==
    (Normalized /\ upstream.parts.before = << >> /\ upstream.parts.after = << >>
                /\ ShapedObject(upstream.parts.core, TypeOf(body)))
        => /\ Reply.code = 200
           /\ Reply.data = JSONParse(upstream.parts.core).val

\* the unit spelling an upstream status
StatusWord(status) == (CHOOSE st \in ErrorStatuses : st[1] = status)[2]

\* the value holds the number w somewhere
RECURSIVE Mentions(_, _)
Mentions(val, w) ==
    \/ val = JNum(w)
    \/ val.t = "arr" /\ \E n \in 1..Len(val.v) : Mentions(val.v[n], w)
    \/ val.t = "obj" /\ \E n \in 1..Len(val.v) : Mentions(val.v[n].val, w)

\* C5: a non-2xx upstream answer ends in a 500 with success=false, without
\* data, and with the upstream status in the details field, whether or not the
\* upstream error body reads as JSON.
C5_GatewayFailure ==
    (Done /\ upstream # NoUpstream /\ ~Ok(upstream))
        => /\ Reply.code = 500
           /\ Reply.success = "false"
           /\ Reply.data = Undefined
           /\ Mentions(Reply.details, StatusWord(upstream.status))

\* the image is not the sentinel and fails the guard
GuardFails(image) == image # SENTINEL /\ ~isValidBase64Image(image)

\* C6 as stated: a POST with a non-empty type whose image fails the guard is
\* answered 400 without any upstream call, in every configuration.
C6_GuardAlways400 ==
    (Done /\ Posted /\ Readable
          /\ Truthy(TypeOf(RequestBody)) /\ GuardFails(ImageOf(RequestBody)))
        => Reply.code = 400 /\ fetchCalls = 0

\* C6 amended: such a request never reaches the upstream gateway and is
\* answered 400, except that with an image present and no credential
\* configured the credential check comes first and the answer is 500.
C6_GuardBeforeUpstream ==
    (Done /\ Posted /\ Readable
          /\ Truthy(TypeOf(RequestBody)) /\ GuardFails(ImageOf(RequestBody)))
        => /\ fetchCalls = 0
           /\ Reply.success = "false"
           /\ Reply.code = IF Truthy(ImageOf(RequestBody)) /\ ~apiKey THEN 500 ELSE 400

\* an image one character short, with the credential configured, refused
C6_Witness ==
    /\ Done
    /\ Posted
    /\ apiKey
    /\ ImageOf(RequestBody) = JStr(Rep("A", MinImageLength - 1))
    /\ TypeOf(RequestBody) = RECEIPT
    /\ Reply.code = 400
    /\ Reply.error.text = "Invalid image format. Please provide a valid base64 image."
    /\ fetchCalls = 0

\* the request has no body at all
NoBody == ~Truthy(req.body) /\ req.raw = << >>

\* C8: a POST whose body lacks image or type (absent, empty, or no body at
\* all) is answered 400 with an error naming the missing field, before any
\* other step.
C8_MissingField ==
    (Done /\ Posted
          /\ (NoBody \/ (Readable /\ (~Truthy(ImageOf(RequestBody))
                                       \/ ~Truthy(TypeOf(RequestBody))))))
        => /\ Reply.code = 400
           /\ fetchCalls = 0
           /\ Reply.error.text =
                  IF ~Truthy(ImageOf(RequestBody))
                  THEN "Missing required field: image"
                  ELSE "Missing required field: type"

\* C9: the handler calls the upstream gateway at most once, never sends two
\* responses, and on every path eventually has sent exactly one.
C9_OneCallOneResponse ==
    /\ [](fetchCalls <= 1 /\ Len(res) <= 1)
    /\ <>(pc = "done" /\ Len(res) = 1)

\* one call, one response, after reading the upstream error body threw twice
C9_Witness ==
    /\ pc = "done"
    /\ fetchCalls = 1
    /\ Len(res) = 1
    /\ Reply.error.message = JStr(<<"Body is unusable">>)

\* one data-URL prefix followed by base64 characters and padding only
WellFormedDataUrl(url) ==
    LET rest == StripDataUrlPrefix(url)
    IN  rest # url /\ Base64Regex(rest)

\* C10: the image URL sent upstream is one data-URL prefix followed only by
\* base64 characters, also when the caller's image carried a prefix itself.
C10_ForwardedDataUrl ==
    fetchCalls > 0 => WellFormedDataUrl(fetchUrl)

====
